---- MODULE Spec2Model ----
(***************************************************************************)
(* Model of list_instances.py: assume a cross-account role through STS,    *)
(* drain the paginated EC2 describe_instances listing, sort the collected  *)
(* instances by LaunchTime and print one line per instance.                *)
(*                                                                         *)
(* Python values are modelled as follows.                                  *)
(*   Optional[x]   None is <<>>, a present value v is <<v>>.               *)
(*   dict          a function from (a subset of) the key strings, so that  *)
(*                 d.get(k) can tell a missing key from a present one.     *)
(*   list          a sequence.                                             *)
(*   output line   the sequence of its formatted fields (the f-string      *)
(*                 joins them with two blanks).                            *)
(***************************************************************************)
EXTENDS Integers, Sequences, FiniteSets, TLC

VARIABLES
    args,        \* argparse namespace: role_arn, external_id, region
    backend,     \* the pages the EC2 service holds for this run
    pc,          \* position of the single thread of control
    exit_code,   \* None while running, <<n>> once the process has ended
    sts_calls,   \* keyword arguments of every sts.assume_role request sent
    sts_result,  \* "none", "ok" or "error": outcome of the assume-role call
    creds,       \* None, or the dict assume_role returned
    ec2,         \* None, or the keyword arguments of boto3.client("ec2", ...)
    page_calls,  \* outcome ("ok" / "error") of every page request sent
    instances,   \* the list `instances` of list_instances_sorted
    stdout,      \* lines printed to standard output
    stderr       \* lines printed to standard error

vars == <<args, backend, pc, exit_code, sts_calls, sts_result, creds, ec2,
          page_calls, instances, stdout, stderr>>

----------------------------------------------------------------------------
(* Bounds of the explored inputs.                                          *)

MaxPages == 2
MaxInstances == 3
MaxRes == 2
MaxEntries == 2
MaxTags == 2

----------------------------------------------------------------------------
(* Python building blocks.                                                 *)

None == <<>>
Some(v) == <<v>>

EmptyDict == <<>>

\* d.get(k)
Get(d, k) == IF k \in DOMAIN d THEN Some(d[k]) ELSE None

\* d.get(k, default)
GetOr(d, k, default) == IF k \in DOMAIN d THEN d[k] ELSE default

SeqsUpTo(S, n) == UNION {[1..k -> S] : k \in 0..n}

----------------------------------------------------------------------------
(* assume_role: request construction and result.                           *)

RoleSessionName == "ec2-list-session"

\* `if external_id:` is Python truthiness: None and "" are both false.
ExternalIdTruthy(external_id) == external_id # None /\ external_id[1] # ""

\* Variant: `if external_id is not None:`.
AssumeRoleParams_NotNone(role_arn, external_id) ==
    [RoleArn |-> role_arn, RoleSessionName |-> RoleSessionName]
        @@ (IF external_id # None
            THEN ("ExternalId" :> external_id[1])
            ELSE EmptyDict)

AssumeRoleParams(role_arn, external_id) ==
    [RoleArn |-> role_arn, RoleSessionName |-> RoleSessionName]
        @@ (IF ExternalIdTruthy(external_id)
            THEN ("ExternalId" :> external_id[1])
            ELSE EmptyDict)

\* The temporary credentials the identity service issues for a role.
StsCredentials(role_arn) ==
    [AccessKeyId |-> "AK", SecretAccessKey |-> "SK", SessionToken |-> "Token"]

CredsFromResponse(c) ==
    [aws_access_key_id |-> c.AccessKeyId,
     aws_secret_access_key |-> c.SecretAccessKey,
     aws_session_token |-> c.SessionToken]

----------------------------------------------------------------------------
(* get_name_tag and the line format.                                       *)

\* Variant: the loop keeps going, so the last "Name" entry wins.
RECURSIVE FirstNameValue_LastWins(_)
FirstNameValue_LastWins(tags) ==
    IF tags = <<>> THEN None
    ELSE LET later == FirstNameValue_LastWins(Tail(tags))
         IN  IF later # None \/ Get(Head(tags), "Key") # Some("Name") THEN later
             ELSE Get(Head(tags), "Value")

RECURSIVE FirstNameValue(_)
FirstNameValue(tags) ==
    IF tags = <<>> THEN None
    ELSE IF Get(Head(tags), "Key") = Some("Name") THEN Get(Head(tags), "Value")
    ELSE FirstNameValue(Tail(tags))

\* tags is Optional[List[Dict]]; the result is Optional[str].
get_name_tag(tags) ==
    IF tags = None \/ tags[1] = <<>> THEN None ELSE FirstNameValue(tags[1])

NoNameTag == "(no Name tag)"
NoInstancesFound == "(no instances found)"

\* Variant: `name if name is not None else "(no Name tag)"`.
name_display_NotNone(name) == IF name # None THEN name[1] ELSE NoNameTag

\* `name if name else "(no Name tag)"`
name_display(name) == IF name # None /\ name[1] # "" THEN name[1] ELSE NoNameTag

\* str() of a LaunchTime instant inside the f-string.
TimeStr(t) == "T" \o ToString(t)

FmtTime(opt) == IF opt = None THEN "None" ELSE TimeStr(opt[1])
FmtStr(opt) == IF opt = None THEN "None" ELSE opt[1]

\* (inst.get("State") or {}).get("Name")
StateName(inst) ==
    LET st == Get(inst, "State")
    IN  IF st = None \/ DOMAIN st[1] = {} THEN None ELSE Get(st[1], "Name")

Line(inst) ==
    << FmtTime(Get(inst, "LaunchTime")),
       FmtStr(Get(inst, "InstanceId")),
       FmtStr(StateName(inst)),
       name_display(get_name_tag(Get(inst, "Tags"))) >>

Render(insts) ==
    IF insts = <<>> THEN << <<NoInstancesFound>> >>
    ELSE [i \in 1..Len(insts) |-> Line(insts[i])]

----------------------------------------------------------------------------
(* The pagination loop body.                                               *)

\* Variant: the loop ends at the first reservation without an Instances list.
RECURSIVE ReservationEntries_StopsAtMissing(_)
ReservationEntries_StopsAtMissing(reservations) ==
    IF reservations = <<>> THEN <<>>
    ELSE IF "Instances" \notin DOMAIN Head(reservations) THEN <<>>
    ELSE Head(reservations).Instances
            \o ReservationEntries_StopsAtMissing(Tail(reservations))

RECURSIVE ReservationEntries(_)
ReservationEntries(reservations) ==
    IF reservations = <<>> THEN <<>>
    ELSE GetOr(Head(reservations), "Instances", <<>>)
            \o ReservationEntries(Tail(reservations))

\* What one page appends to `instances`.
PageEntries(page) == ReservationEntries(GetOr(page, "Reservations", <<>>))

----------------------------------------------------------------------------
(* instances.sort(key=lambda i: i.get("LaunchTime"))                       *)

SortKey(inst) == Get(inst, "LaunchTime")

\* `<` on two keys raises TypeError as soon as one of them is None
\* (NoneType defines no ordering, not even against itself).
KeyLtRaises(a, b) == a = None \/ b = None

\* list.sort compares every element with a neighbour once the list holds two
\* or more, so the TypeError is raised exactly when such a list has a None key.
SortRaises(insts) ==
    Len(insts) >= 2 /\ \E i \in 1..Len(insts) : \E j \in 1..Len(insts) :
        i # j /\ KeyLtRaises(SortKey(insts[i]), SortKey(insts[j]))

KeyLt(a, b) == a[1] < b[1]

\* Variant: x goes in front of the elements with an equal key.
RECURSIVE InsertSorted_Unstable(_, _)
InsertSorted_Unstable(x, s) ==
    IF s = <<>> THEN <<x>>
    ELSE IF ~KeyLt(SortKey(Head(s)), SortKey(x)) THEN <<x>> \o s
    ELSE <<Head(s)>> \o InsertSorted_Unstable(x, Tail(s))

\* Put x behind every element of the sorted list s that is not greater.
RECURSIVE InsertSorted(_, _)
InsertSorted(x, s) ==
    IF s = <<>> THEN <<x>>
    ELSE IF KeyLt(SortKey(x), SortKey(Head(s))) THEN <<x>> \o s
    ELSE <<Head(s)>> \o InsertSorted(x, Tail(s))

RECURSIVE SortFrom(_, _)
SortFrom(done, rest) ==
    IF rest = <<>> THEN done
    ELSE SortFrom(InsertSorted(Head(rest), done), Tail(rest))

\* The stable ascending sort; only meaningful when ~SortRaises(insts).
Sorted(insts) == IF Len(insts) < 2 THEN insts ELSE SortFrom(<<>>, insts)

----------------------------------------------------------------------------
(* The inputs of a run: the command line and what the services hold.       *)

RoleArns == {"arn:aws:iam::123456789012:role/A", "arn:aws:iam::210987654321:role/B"}
ExternalIds == {None, Some(""), Some("ext-1")}
Regions == {"us-east-1", "eu-west-1"}

Args == [role_arn : RoleArns, external_id : ExternalIds, region : Regions]

\* Only --role-arn given: argparse fills in the defaults.
DefaultArgs ==
    [role_arn |-> "arn:aws:iam::123456789012:role/A",
     external_id |-> None, region |-> "us-east-1"]

LaunchTimes == {1, 2}
OptLaunchTimes == {None} \cup {Some(t) : t \in LaunchTimes}

Inst(id, state, launch, tags) ==
    IF launch = None /\ tags = None THEN
        [InstanceId |-> id, State |-> [Name |-> state]]
    ELSE IF tags = None THEN
        [InstanceId |-> id, State |-> [Name |-> state], LaunchTime |-> launch[1]]
    ELSE IF launch = None THEN
        [InstanceId |-> id, State |-> [Name |-> state], Tags |-> tags[1]]
    ELSE
        [InstanceId |-> id, State |-> [Name |-> state], LaunchTime |-> launch[1],
         Tags |-> tags[1]]

NameTag(v) == [Key |-> "Name", Value |-> v]

\* Two instances that differ in everything but the launch time.
SortInstances ==
    {Inst("i-001", "running", lt, None) : lt \in OptLaunchTimes}
        \cup {Inst("i-002", "stopped", lt, Some(<<NameTag("db")>>)) : lt \in OptLaunchTimes}

EntryInstances ==
    {Inst("i-001", "running", Some(1), None), Inst("i-002", "stopped", None, None)}

TagDicts ==
    {NameTag("web-1"), NameTag("db"), NameTag(""), [Key |-> "Name"],
     [Key |-> "name", Value |-> "db"], [Key |-> "Env", Value |-> "web-1"],
     [Value |-> "web-1"]}

OptTagLists == {None} \cup {Some(l) : l \in SeqsUpTo(TagDicts, MaxTags)}

TagInstances == {Inst("i-001", "running", Some(1), tags) : tags \in OptTagLists}

Reservation(insts) == [ReservationId |-> "r-1", Instances |-> insts]
ReservationNoInstances == [ReservationId |-> "r-1"]
Page(reservations) == [Reservations |-> reservations]
PageNoReservations == [ResponseMetadata |-> "200"]

(* A listing is described by its shape and its content.  The shape of a     *)
(* reservation is -1 when it lacks its Instances list and the length of    *)
(* that list otherwise; the shape of a page is None when it lacks its      *)
(* Reservations list and Some(shapes of its reservations) otherwise.  The  *)
(* content is the sequence of all instance entries, in listing order.      *)

ReservationSize(rshape) == IF rshape < 0 THEN 0 ELSE rshape

RECURSIVE ReservationsSize(_)
ReservationsSize(rshapes) ==
    IF rshapes = <<>> THEN 0
    ELSE ReservationSize(Head(rshapes)) + ReservationsSize(Tail(rshapes))

PageSize(pshape) == IF pshape = None THEN 0 ELSE ReservationsSize(pshape[1])

RECURSIVE ListingSize(_)
ListingSize(pshapes) ==
    IF pshapes = <<>> THEN 0 ELSE PageSize(Head(pshapes)) + ListingSize(Tail(pshapes))

BuildReservation(rshape, content, offset) ==
    IF rshape < 0 THEN ReservationNoInstances
    ELSE Reservation(SubSeq(content, offset + 1, offset + rshape))

BuildPage(pshape, content, offset) ==
    IF pshape = None THEN PageNoReservations
    ELSE Page([j \in 1..Len(pshape[1]) |->
                BuildReservation(pshape[1][j], content,
                    offset + ReservationsSize(SubSeq(pshape[1], 1, j - 1)))])

BuildListing(pshapes, content) ==
    [i \in 1..Len(pshapes) |->
        BuildPage(pshapes[i], content, ListingSize(SubSeq(pshapes, 1, i - 1)))]

\* Sort listings: every page holds one reservation with its Instances list.
SortPageShapes == {Some(<<k>>) : k \in 0..MaxInstances}

\* Entry listings: pages and reservations of every shape.
EntryPageShapes ==
    {None} \cup {Some(rs) : rs \in SeqsUpTo({-1} \cup 1..MaxEntries, MaxRes)}

\* The end-to-end listing: page 1 holds i-001 (later), page 2 holds i-002.
ScenarioBackend ==
    << Page(<<Reservation(<<Inst("i-001", "running", Some(2), None)>>)>>),
       Page(<<Reservation(<<Inst("i-002", "stopped", Some(1), Some(<<NameTag("db")>>))>>)>>) >>

EmptyBackend == << Page(<<>>) >>

\* A listing holding an instance without LaunchTime next to one that has it.
NoLaunchTimeBackend ==
    << Page(<<Reservation(<<Inst("i-001", "running", Some(1), None),
                             Inst("i-002", "stopped", None, None)>>)>>) >>

ArgBackends == {ScenarioBackend, EmptyBackend, NoLaunchTimeBackend}

----------------------------------------------------------------------------
(* The program.                                                            *)

Start(a, b) ==
    /\ args = a
    /\ backend = b
    /\ pc = "START"
    /\ exit_code = None
    /\ sts_calls = <<>>
    /\ sts_result = "none"
    /\ creds = None
    /\ ec2 = None
    /\ page_calls = <<>>
    /\ instances = <<>>
    /\ stdout = <<>>
    /\ stderr = <<>>

\* Every command line, against a few listings.
InitArgs == \E a \in Args : \E b \in ArgBackends : Start(a, b)

\* The provider always answers the first request, so a listing has a page.
InitListing(PageShapes, U, n) ==
    \E np \in 1..MaxPages : \E pshapes \in [1..np -> PageShapes] :
        /\ ListingSize(pshapes) <= n
        /\ \E content \in [1..ListingSize(pshapes) -> U] :
                Start(DefaultArgs, BuildListing(pshapes, content))

InitSort == InitListing(SortPageShapes, SortInstances, MaxInstances)
InitEntries == InitListing(EntryPageShapes, EntryInstances, MaxEntries)
InitTags == \E i \in TagInstances : Start(DefaultArgs, <<Page(<<Reservation(<<i>>)>>)>>)

Init == InitArgs \/ InitSort \/ InitEntries \/ InitTags

\* assume_role, the call succeeding: lines 19-33.
AssumeRoleOk ==
    /\ pc = "START"
    /\ sts_calls' = Append(sts_calls, AssumeRoleParams(args.role_arn, args.external_id))
    /\ sts_result' = "ok"
    /\ creds' = Some(CredsFromResponse(StsCredentials(args.role_arn)))
    /\ pc' = "CREDENTIALS_OBTAINED"
    /\ UNCHANGED <<args, backend, exit_code, ec2, page_calls, instances, stdout, stderr>>

\* Variant: the handler reports the error and returns instead of exiting.
AssumeRoleFail_Returns ==
    /\ pc = "START"
    /\ sts_calls' = Append(sts_calls, AssumeRoleParams(args.role_arn, args.external_id))
    /\ sts_result' = "error"
    /\ stderr' = Append(stderr, <<"[ERROR] Failed to assume role">>)
    /\ creds' = Some(EmptyDict)
    /\ pc' = "CREDENTIALS_OBTAINED"
    /\ UNCHANGED <<args, backend, exit_code, ec2, page_calls, instances, stdout>>

\* assume_role, the call raising ClientError or BotoCoreError: lines 34-36.
AssumeRoleFail ==
    /\ pc = "START"
    /\ sts_calls' = Append(sts_calls, AssumeRoleParams(args.role_arn, args.external_id))
    /\ sts_result' = "error"
    /\ stderr' = Append(stderr, <<"[ERROR] Failed to assume role">>)
    /\ exit_code' = Some(2)
    /\ pc' = "FAILED"
    /\ UNCHANGED <<args, backend, creds, ec2, page_calls, instances, stdout>>

\* boto3.client("ec2", ...), instances = [], get_paginator: lines 49-53.
CreateEc2Client ==
    /\ pc = "CREDENTIALS_OBTAINED"
    /\ ec2' = Some(("region_name" :> args.region) @@ creds[1])
    /\ instances' = <<>>
    /\ pc' = "PAGINATING"
    /\ UNCHANGED <<args, backend, exit_code, sts_calls, sts_result, creds,
                   page_calls, stdout, stderr>>

\* One turn of `for page in paginator.paginate()`: lines 54-57.  The
\* paginator asks for a further page as long as the provider announces one.
FetchPageOk ==
    /\ pc = "PAGINATING"
    /\ Len(page_calls) < Len(backend)
    /\ instances' = instances \o PageEntries(backend[Len(page_calls) + 1])
    /\ page_calls' = Append(page_calls, "ok")
    /\ pc' = IF Len(page_calls) + 1 = Len(backend) THEN "INSTANCES_LISTED" ELSE "PAGINATING"
    /\ UNCHANGED <<args, backend, exit_code, sts_calls, sts_result, creds, ec2,
                   stdout, stderr>>

\* Variant: the handler prints what was collected before exiting.
FetchPageFail_PrintsCollected ==
    /\ pc = "PAGINATING"
    /\ Len(page_calls) < Len(backend)
    /\ page_calls' = Append(page_calls, "error")
    /\ stderr' = Append(stderr, <<"[ERROR] Failed to describe instances">>)
    /\ stdout' = stdout \o Render(instances)
    /\ exit_code' = Some(3)
    /\ pc' = "FAILED"
    /\ UNCHANGED <<args, backend, sts_calls, sts_result, creds, ec2, instances>>

\* A page request raising ClientError or BotoCoreError: lines 58-60.
FetchPageFail ==
    /\ pc = "PAGINATING"
    /\ Len(page_calls) < Len(backend)
    /\ page_calls' = Append(page_calls, "error")
    /\ stderr' = Append(stderr, <<"[ERROR] Failed to describe instances">>)
    /\ exit_code' = Some(3)
    /\ pc' = "FAILED"
    /\ UNCHANGED <<args, backend, sts_calls, sts_result, creds, ec2, instances, stdout>>

\* instances.sort raising TypeError, which nothing catches: line 63.  The
\* interpreter prints the traceback and ends the process with status 1.
SortCrash ==
    /\ pc = "INSTANCES_LISTED"
    /\ SortRaises(instances)
    /\ stderr' = Append(stderr, <<"Traceback (most recent call last):", "TypeError">>)
    /\ exit_code' = Some(1)
    /\ pc' = "CRASHED"
    /\ UNCHANGED <<args, backend, sts_calls, sts_result, creds, ec2, page_calls,
                   instances, stdout>>

\* The sort succeeding and the printing: lines 63-75, then main returns.
SortAndPrint ==
    /\ pc = "INSTANCES_LISTED"
    /\ ~SortRaises(instances)
    /\ instances' = Sorted(instances)
    /\ stdout' = stdout \o Render(Sorted(instances))
    /\ exit_code' = Some(0)
    /\ pc' = "RENDERED"
    /\ UNCHANGED <<args, backend, sts_calls, sts_result, creds, ec2, page_calls, stderr>>

Next ==
    \/ AssumeRoleOk
    \/ AssumeRoleFail
    \/ CreateEc2Client
    \/ FetchPageOk
    \/ FetchPageFail
    \/ SortCrash
    \/ SortAndPrint

Spec == Init /\ [][Next]_vars

----------------------------------------------------------------------------
(* Vocabulary of the properties, stated on the listing itself and on the   *)
(* printed lines rather than through the operators of the program.         *)

Terminated == exit_code # None

\* Every page was requested and every request was answered.
EnumerationSucceeded ==
    /\ Len(page_calls) = Len(backend)
    /\ \A k \in 1..Len(page_calls) : page_calls[k] = "ok"

LastPageCallFailed == page_calls # <<>> /\ page_calls[Len(page_calls)] = "error"

\* <<page, reservation, index>> of every instance entry of the pages.
EntryPositions(pages) ==
    UNION {
        UNION {
            {<<p, r, i>> : i \in 1..Len(pages[p].Reservations[r].Instances)}
            : r \in {r \in 1..Len(pages[p].Reservations) :
                        "Instances" \in DOMAIN pages[p].Reservations[r]}}
        : p \in {p \in 1..Len(pages) : "Reservations" \in DOMAIN pages[p]}}

EntryAt(pages, pos) == pages[pos[1]].Reservations[pos[2]].Instances[pos[3]]

\* Listing order: by page, then reservation, then place in the reservation.
PosBefore(a, b) ==
    \/ a[1] < b[1]
    \/ a[1] = b[1] /\ a[2] < b[2]
    \/ a[1] = b[1] /\ a[2] = b[2] /\ a[3] < b[3]

\* The entries of the pages in the order the provider returns them.
ProviderEntries(pages) ==
    LET P == EntryPositions(pages)
        Rank(pos) == 1 + Cardinality({q \in P : PosBefore(q, pos)})
    IN  [k \in 1..Cardinality(P) |-> EntryAt(pages, CHOOSE pos \in P : Rank(pos) = k)]

FetchedPages == SubSeq(backend, 1, Len(SelectSeq(page_calls, LAMBDA c : c = "ok")))

HasLaunchTime(inst) == "LaunchTime" \in DOMAIN inst

\* The instant a printed line starts with.
LineTime(line) == CHOOSE t \in LaunchTimes : TimeStr(t) = line[1]

IsNameEntry(t) == "Key" \in DOMAIN t /\ t.Key = "Name"

TagsOf(inst) == IF "Tags" \in DOMAIN inst THEN inst.Tags ELSE <<>>

HasNameEntry(inst) == \E k \in 1..Len(TagsOf(inst)) : IsNameEntry(TagsOf(inst)[k])

\* The first entry of the tag collection whose Key is exactly "Name".
FirstNameEntry(inst) ==
    LET tags == TagsOf(inst)
        k == CHOOSE k \in 1..Len(tags) :
                /\ IsNameEntry(tags[k])
                /\ \A j \in 1..(k - 1) : ~IsNameEntry(tags[j])
    IN  tags[k]

HasUsableName(inst) ==
    /\ HasNameEntry(inst)
    /\ "Value" \in DOMAIN FirstNameEntry(inst)
    /\ FirstNameEntry(inst).Value # ""

\* The display name is the last field of a printed line.
DisplayName(line) == line[Len(line)]

----------------------------------------------------------------------------
(* C1.  Whenever the assume-role call fails, the process has ended with    *)
(* exit status 2, no credentials were returned, no EC2 client was created, *)
(* no page was requested and nothing was written to standard output.       *)

C1_AssumeRoleFailureExits2 ==
    sts_result = "error" =>
        /\ pc = "FAILED"
        /\ exit_code = Some(2)
        /\ creds = None
        /\ ec2 = None
        /\ page_calls = <<>>
        /\ stdout = <<>>

C1_Witness ==
    /\ sts_result = "error"
    /\ exit_code = Some(2)
    /\ Len(sts_calls) = 1
    /\ args.external_id = Some("ext-1")

(* C2.  Whenever a page request fails, on the first page or after pages    *)
(* that were fetched, the process has ended with exit status 3 and         *)
(* standard output is empty: no instance line and no placeholder line.     *)

C2_PageFailureExits3 ==
    LastPageCallFailed =>
        /\ pc = "FAILED"
        /\ exit_code = Some(3)
        /\ stdout = <<>>

C2_Witness ==
    /\ LastPageCallFailed
    /\ Len(page_calls) = 2
    /\ instances # <<>>
    /\ exit_code = Some(3)

(* C3.  After a successful enumeration the finished run has written one    *)
(* line per record when there are records, and exactly the placeholder     *)
(* line "(no instances found)" when there are none.                        *)

C3_LineCountEqualsRecordCount ==
    (Terminated /\ EnumerationSucceeded) =>
        IF instances = <<>>
        THEN stdout = << <<NoInstancesFound>> >>
        ELSE Len(stdout) = Len(instances)

(* C4.  When every record carries a creation timestamp, the printed lines  *)
(* are in ascending timestamp order, they are the lines of the provider's  *)
(* records rearranged, and records with equal timestamps keep the order in *)
(* which the provider returned them.                                       *)

C4_SortedStablePermutation ==
    LET in == ProviderEntries(backend)
        n == Len(in)
    IN  (pc = "RENDERED" /\ n > 0 /\ \A k \in 1..n : HasLaunchTime(in[k])) =>
            /\ Len(stdout) = n
            /\ \A i \in 1..(n - 1) : LineTime(stdout[i]) <= LineTime(stdout[i + 1])
            /\ \E perm \in Permutations(1..n) :
                /\ \A i \in 1..n : stdout[i] = Line(in[perm[i]])
                /\ \A i \in 1..n : \A j \in (i + 1)..n :
                      in[perm[i]].LaunchTime = in[perm[j]].LaunchTime => perm[i] < perm[j]

C4_Witness ==
    LET in == ProviderEntries(backend)
    IN  /\ pc = "RENDERED"
        /\ Len(in) = 3
        /\ Len(backend) = 2
        /\ \A k \in 1..3 : HasLaunchTime(in[k])
        /\ in[1].LaunchTime = 2
        /\ in[2].LaunchTime = 1 /\ in[2].InstanceId = "i-002"
        /\ in[3].LaunchTime = 1 /\ in[3].InstanceId = "i-001"
        /\ stdout = <<Line(in[2]), Line(in[3]), Line(in[1])>>

(* C5.  When the collection holds a record without a creation timestamp,   *)
(* the finished run has exit status 0 and every line of a record without a *)
(* timestamp precedes every line of a record with one.                     *)

C5_MissingTimestampSortsFirst ==
    LET in == ProviderEntries(backend)
    IN  (Terminated /\ EnumerationSucceeded
            /\ \E k \in 1..Len(in) : ~HasLaunchTime(in[k])) =>
            /\ pc = "RENDERED"
            /\ exit_code = Some(0)
            /\ Len(stdout) = Len(in)
            /\ \A i \in 1..Len(stdout) : \A j \in 1..Len(stdout) :
                  (stdout[i][1] = "None" /\ stdout[j][1] # "None") => i < j

(* C6, as stated.  The display name of every printed line is the Value of  *)
(* the first tag whose Key is exactly "Name", and the placeholder          *)
(* "(no Name tag)" when there is no such tag.                              *)

C6_DisplayNameIsFirstNameValue ==
    pc = "RENDERED" =>
        \A i \in 1..Len(instances) :
            IF ~HasNameEntry(instances[i])
            THEN DisplayName(stdout[i]) = NoNameTag
            ELSE "Value" \in DOMAIN FirstNameEntry(instances[i]) =>
                    DisplayName(stdout[i]) = FirstNameEntry(instances[i]).Value

(* C6, amended.  The display name of every printed line is the Value of    *)
(* the first tag whose Key is exactly "Name" when that Value is present    *)
(* and not empty; otherwise (tags absent or empty, no such tag, or its     *)
(* Value absent or empty) it is the placeholder "(no Name tag)".           *)

C6_DisplayNameIsNonEmptyFirstNameValue ==
    pc = "RENDERED" =>
        \A i \in 1..Len(instances) :
            DisplayName(stdout[i]) =
                IF HasUsableName(instances[i])
                THEN FirstNameEntry(instances[i]).Value
                ELSE NoNameTag

C6_Witness ==
    /\ pc = "RENDERED"
    /\ Len(instances) = 1
    /\ TagsOf(instances[1]) = <<[Key |-> "name", Value |-> "db"], NameTag("web-1")>>
    /\ DisplayName(stdout[1]) = "web-1"

(* C7.  A finished run is RENDERED with exit status 0, or FAILED with exit *)
(* status 2 after the assume-role call failed, or FAILED with exit status  *)
(* 3 after credentials were obtained; the assume-role call is made at most *)
(* once.                                                                   *)

C7_LinearChainTerminalStates ==
    /\ Len(sts_calls) <= 1
    /\ Terminated =>
        \/ pc = "RENDERED" /\ exit_code = Some(0) /\ EnumerationSucceeded
        \/ pc = "FAILED" /\ exit_code = Some(2) /\ sts_result = "error"
        \/ pc = "FAILED" /\ exit_code = Some(3) /\ sts_result = "ok"

(* C8.  While pages are fetched and once the listing is complete, the      *)
(* collected records are exactly the instance entries of the pages fetched *)
(* so far, each once and in listing order; the listing is complete only    *)
(* when every page the provider holds was fetched.  Pages without a        *)
(* reservation list and reservations without an instance list add nothing. *)

C8_AllEntriesCollectedOnce ==
    /\ pc \in {"PAGINATING", "INSTANCES_LISTED"} =>
            instances = ProviderEntries(FetchedPages)
    /\ pc = "INSTANCES_LISTED" => EnumerationSucceeded

C8_Witness ==
    /\ pc = "INSTANCES_LISTED"
    /\ Len(backend) = 2
    /\ backend[1] = PageNoReservations
    /\ "Reservations" \in DOMAIN backend[2]
    /\ Len(backend[2].Reservations) = 2
    /\ backend[2].Reservations[1] = ReservationNoInstances
    /\ Len(instances) = 2
    /\ instances[1] # instances[2]

(* C9, as stated.  Every assume-role request carries the given role, the   *)
(* constant session name, and the external id exactly when one was         *)
(* supplied on the command line, with the value supplied.                  *)

C9_ExternalIdIffSupplied ==
    \A k \in 1..Len(sts_calls) :
        /\ sts_calls[k].RoleArn = args.role_arn
        /\ sts_calls[k].RoleSessionName = "ec2-list-session"
        /\ "ExternalId" \in DOMAIN sts_calls[k] <=> args.external_id # None
        /\ "ExternalId" \in DOMAIN sts_calls[k] =>
                Some(sts_calls[k].ExternalId) = args.external_id

(* C9, amended.  Every assume-role request carries the given role, the     *)
(* constant session name, and the external id exactly when a non-empty one *)
(* was supplied on the command line, with the value supplied; otherwise    *)
(* the request has no external-id parameter at all.                        *)

C9_ExternalIdIffNonEmptySupplied ==
    \A k \in 1..Len(sts_calls) :
        /\ sts_calls[k].RoleArn = args.role_arn
        /\ sts_calls[k].RoleSessionName = "ec2-list-session"
        /\ "ExternalId" \in DOMAIN sts_calls[k] <=>
                (args.external_id # None /\ args.external_id # Some(""))
        /\ "ExternalId" \in DOMAIN sts_calls[k] =>
                Some(sts_calls[k].ExternalId) = args.external_id
        /\ DOMAIN sts_calls[k] \subseteq {"RoleArn", "RoleSessionName", "ExternalId"}

C9_Witness ==
    /\ Len(sts_calls) = 1
    /\ args.external_id = Some("ext-1")
    /\ args.role_arn = "arn:aws:iam::210987654321:role/B"
    /\ sts_calls[1] = [RoleArn |-> "arn:aws:iam::210987654321:role/B",
                       RoleSessionName |-> "ec2-list-session",
                       ExternalId |-> "ext-1"]

(* C10.  A printed line shows the placeholder "(no Name tag)" exactly when *)
(* the record has no usable name; in particular when the first tag whose   *)
(* Key is "Name" has no Value or an empty one, even if a later "Name" tag  *)
(* has a non-empty Value.                                                  *)

C10_PlaceholderIffNoUsableName ==
    pc = "RENDERED" =>
        \A i \in 1..Len(instances) :
            /\ DisplayName(stdout[i]) = NoNameTag <=> ~HasUsableName(instances[i])
            /\ (/\ HasNameEntry(instances[i])
                /\ \/ "Value" \notin DOMAIN FirstNameEntry(instances[i])
                   \/ FirstNameEntry(instances[i]).Value = "")
               => DisplayName(stdout[i]) = NoNameTag

C10_Witness ==
    /\ pc = "RENDERED"
    /\ Len(instances) = 1
    /\ TagsOf(instances[1]) = <<NameTag(""), NameTag("web-1")>>
    /\ DisplayName(stdout[1]) = NoNameTag

====
